---- MODULE Spec2Model ----
(***************************************************************************)
(* Model of scripts/fix-warning-flag.py: a repo-wide literal replacement   *)
(* of the clang flag -Wno-nontrivial-memcall by -Wno-nontrivial-memaccess, *)
(* with a dry-run, an apply and a commit mode.                             *)
(*                                                                         *)
(* File contents and file names are tuples of byte values (0..255); text   *)
(* read through Python's text layer is a tuple of Unicode code points.     *)
(* Directory names are strings: the script only compares them as wholes.   *)
(***************************************************************************)
EXTENDS Integers, Sequences, FiniteSets, TLC

----------------------------------------------------------------------------
(* Bounds of the model *)

\* number of files in the scanned tree
NumFiles == 2
\* number of I/O or git failures the environment injects in one behaviour
MaxFaults == 1

----------------------------------------------------------------------------
(* Program constants *)

\* "-Wno-nontrivial-memcall"
BAD_FLAG ==
  <<45,87,110,111,45,110,111,110,116,114,105,118,105,97,108,45,109,101,109,99,97,108,108>>

\* "-Wno-nontrivial-memaccess"
GOOD_FLAG ==
  <<45,87,110,111,45,110,111,110,116,114,105,118,105,97,108,45,109,101,109,97,99,99,101,115,115>>

SKIP_DIRS == {".git", "out", "node_modules", "__pycache__", ".cache"}

\* the 39 extensions of the deny-list, as bytes
BINARY_EXTENSIONS == {
    <<46,112,110,103>>, <<46,106,112,103>>, <<46,106,112,101,103>>,
    <<46,103,105,102>>, <<46,98,109,112>>, <<46,105,99,111>>,
    <<46,119,101,98,112>>, <<46,112,100,102>>, <<46,122,105,112>>,
    <<46,116,97,114>>, <<46,103,122>>, <<46,98,122,50>>,
    <<46,120,122>>, <<46,55,122>>, <<46,101,120,101>>,
    <<46,100,108,108>>, <<46,115,111>>, <<46,100,121,108,105,98>>,
    <<46,97>>, <<46,111>>, <<46,111,98,106>>,
    <<46,112,121,99>>, <<46,112,121,111>>, <<46,99,108,97,115,115>>,
    <<46,106,97,114>>, <<46,119,111,102,102>>, <<46,119,111,102,102,50>>,
    <<46,116,116,102>>, <<46,111,116,102>>, <<46,101,111,116>>,
    <<46,109,112,51>>, <<46,109,112,52>>, <<46,97,118,105>>,
    <<46,109,111,118>>, <<46,109,107,118>>, <<46,119,97,118>>,
    <<46,100,98>>, <<46,115,113,108,105,116,101>>, <<46,115,113,108,105,116,101,51>>
  }

\* f.read(8192) of the content sniff
SNIFF_SIZE == 8192

----------------------------------------------------------------------------
(* Pure functions on byte and text sequences *)

Min(a, b) == IF a < b THEN a ELSE b

\* s[i..] (the empty sequence when i > Len(s))
Drop(s, i) == SubSeq(s, i, Len(s))

\* pat occurs in s starting at index i
MatchAt(s, pat, i) ==
  /\ i + Len(pat) - 1 <= Len(s)
  /\ SubSeq(s, i, i + Len(pat) - 1) = pat

\* Python's `pat in s`
Contains(s, pat) == \E i \in 1..(Len(s) + 1) : MatchAt(s, pat, i)

\* Python's str.count(pat): non-overlapping occurrences, left to right
RECURSIVE CountFrom(_, _, _)
CountFrom(s, pat, i) ==
  IF i > Len(s) THEN 0
  ELSE IF MatchAt(s, pat, i) THEN 1 + CountFrom(s, pat, i + Len(pat))
  ELSE CountFrom(s, pat, i + 1)

Count(s, pat) == CountFrom(s, pat, 1)

\* Mutant of Replace: str.replace(old, new, 1), only the first occurrence
ReplaceFirst(s, old, new) ==
  IF Contains(s, old)
    THEN LET i == CHOOSE j \in 1..Len(s) :
                    MatchAt(s, old, j) /\ \A h \in 1..(j - 1) : ~MatchAt(s, old, h)
         IN  SubSeq(s, 1, i - 1) \o new \o Drop(s, i + Len(old))
    ELSE s

\* Python's str.replace(old, new): every non-overlapping occurrence, left to right
RECURSIVE ReplaceFrom(_, _, _, _)
ReplaceFrom(s, old, new, i) ==
  IF i > Len(s) THEN <<>>
  ELSE IF MatchAt(s, old, i) THEN new \o ReplaceFrom(s, old, new, i + Len(old))
  ELSE <<s[i]>> \o ReplaceFrom(s, old, new, i + 1)

Replace(s, old, new) == ReplaceFrom(s, old, new, 1)

\* b is a UTF-8 continuation byte
IsCont(b) == b >= 128 /\ b <= 191

\* the number of bytes of the well-formed UTF-8 sequence starting at b[i],
\* or 0 when b[i] does not start one
SeqLenAt(b, i) ==
  LET c == b[i]
      n == Len(b)
      c2 == IF i + 1 <= n THEN b[i + 1] ELSE 0
      c3 == IF i + 2 <= n THEN b[i + 2] ELSE 0
      c4 == IF i + 3 <= n THEN b[i + 3] ELSE 0
  IN  IF c < 128 THEN 1
      ELSE IF c >= 194 /\ c <= 223
        THEN IF IsCont(c2) THEN 2 ELSE 0
      ELSE IF c >= 224 /\ c <= 239
        THEN IF /\ IsCont(c2) /\ IsCont(c3)
                /\ (c = 224 => c2 >= 160)
                /\ (c = 237 => c2 <= 159)
             THEN 3 ELSE 0
      ELSE IF c >= 240 /\ c <= 244
        THEN IF /\ IsCont(c2) /\ IsCont(c3) /\ IsCont(c4)
                /\ (c = 240 => c2 >= 144)
                /\ (c = 244 => c2 <= 143)
             THEN 4 ELSE 0
      ELSE 0

\* the code point of the well-formed sequence of k bytes starting at b[i]
CodePointAt(b, i, k) ==
  IF k = 1 THEN b[i]
  ELSE IF k = 2 THEN (b[i] - 192) * 64 + (b[i + 1] - 128)
  ELSE IF k = 3 THEN (b[i] - 224) * 4096 + (b[i + 1] - 128) * 64 + (b[i + 2] - 128)
  ELSE (b[i] - 240) * 262144 + (b[i + 1] - 128) * 4096
         + (b[i + 2] - 128) * 64 + (b[i + 3] - 128)

\* bytes.decode("utf-8", errors="ignore"): a byte that starts no well-formed
\* sequence is dropped and decoding resumes at the next byte
RECURSIVE DecodeFrom(_, _)
DecodeFrom(b, i) ==
  IF i > Len(b) THEN <<>>
  ELSE LET k == SeqLenAt(b, i)
       IN  IF k = 0 THEN DecodeFrom(b, i + 1)
           ELSE <<CodePointAt(b, i, k)>> \o DecodeFrom(b, i + k)

Decode(b) == DecodeFrom(b, 1)

\* universal-newlines translation of a text stream opened for reading with
\* newline=None: "\r\n" and a lone "\r" both become "\n"
RECURSIVE TranslateNewlines(_)
TranslateNewlines(t) ==
  IF t = <<>> THEN <<>>
  ELSE IF t[1] = 13
    THEN IF Len(t) >= 2 /\ t[2] = 10
           THEN <<10>> \o TranslateNewlines(Drop(t, 3))
           ELSE <<10>> \o TranslateNewlines(Drop(t, 2))
  ELSE <<t[1]>> \o TranslateNewlines(Drop(t, 2))

\* open(filepath, "r", encoding="utf-8", errors="ignore").read()
ReadText(raw) == TranslateNewlines(Decode(raw))

\* the UTF-8 encoding of one code point
EncodeCodePoint(c) ==
  IF c < 128 THEN <<c>>
  ELSE IF c < 2048 THEN <<192 + (c \div 64), 128 + (c % 64)>>
  ELSE IF c < 65536
    THEN <<224 + (c \div 4096), 128 + ((c \div 64) % 64), 128 + (c % 64)>>
  ELSE <<240 + (c \div 262144), 128 + ((c \div 4096) % 64),
         128 + ((c \div 64) % 64), 128 + (c % 64)>>

\* open(filepath, "w", encoding="utf-8").write(text): on a POSIX platform
\* (os.linesep = "\n") the text layer writes "\n" as it is
RECURSIVE WriteBytes(_)
WriteBytes(t) ==
  IF t = <<>> THEN <<>>
  ELSE EncodeCodePoint(t[1]) \o WriteBytes(Drop(t, 2))

\* Path.suffix of a file name: the last dot and what follows it, unless the
\* dot is the first or the last character of the name
LastDot(name) ==
  LET dots == {i \in 1..Len(name) : name[i] = 46}
  IN  IF dots = {} THEN 0 ELSE CHOOSE i \in dots : \A j \in dots : j <= i

Suffix(name) ==
  LET i == LastDot(name)
  IN  IF i > 1 /\ i < Len(name) THEN Drop(name, i) ELSE <<>>

\* str.lower() on ASCII
Lower(s) == [i \in 1..Len(s) |-> IF s[i] >= 65 /\ s[i] <= 90 THEN s[i] + 32 ELSE s[i]]

\* the chunk of f.read(8192) holds a null byte
SniffHasNull(raw) ==
  \E i \in 1..Min(Len(raw), SNIFF_SIZE) : raw[i] = 0

\* Mutant of HasBinaryExtension: the suffix is compared without .lower()
HasBinaryExtensionExact(name) == Suffix(name) \in BINARY_EXTENSIONS

\* the extension test of is_binary_file
HasBinaryExtension(name) == Lower(Suffix(name)) \in BINARY_EXTENSIONS

\* is_binary_file(filepath); readable = the open/read of the sniff succeeds
is_binary_file(name, raw, readable) ==
  IF HasBinaryExtension(name) THEN TRUE
  ELSE IF ~readable THEN TRUE
  ELSE SniffHasNull(raw)

\* the content replace_in_file writes for a file whose bytes are raw
Rewritten(raw) == WriteBytes(Replace(ReadText(raw), BAD_FLAG, GOOD_FLAG))

----------------------------------------------------------------------------
(* The scanned tree: the inputs of one behaviour *)

Files == 1..NumFiles

\* The directories of the tree: the scan root, a directory d1 in it and a
\* directory d2 in d1.
Dirs == {"root", "d1", "d2"}

\* the sub-directories os.walk lists for a directory, in listing order
Children(d) ==
  IF d = "root" THEN <<"d1">> ELSE IF d = "d1" THEN <<"d2">> ELSE <<>>

\* the directory that holds file f: file 1 is in root/d1/d2, file 2 in the
\* root itself, file 3 in root/d1, and so on
DirOf(f) ==
  IF f % 3 = 1 THEN "d2" ELSE IF f % 3 = 2 THEN "root" ELSE "d1"

\* the names the scan root and the directory d1 are drawn from; d2 is "lib"
RootNames == {"repo", "out"}
SubDirNames == {"src", ".git"}

\* the files a tree is built from, as [name, raw]:
\*   f.txt  e-acute "-Wno-nontrivial-memcall" 0xFF CR LF  (a byte that is not UTF-8, CRLF)
\*   i.PNG  "-Wno-nontrivial-memcall"                     (deny-listed extension)
\*   n.txt  NUL "-Wno-nontrivial-memcall"                 (null byte in the sniff)
\*   g.txt  "-Wno-nontrivial-memaccess" LF                (no occurrence)
\*   c.txt  "-Wno-nontrivial-memcall" LF, twice           (plain text, two occurrences)
FileKinds == {
  [name |-> <<102,46,116,120,116>>, raw |-> <<195, 169>> \o BAD_FLAG \o <<255, 13, 10>>],
  [name |-> <<105,46,80,78,71>>, raw |-> BAD_FLAG],
  [name |-> <<110,46,116,120,116>>, raw |-> <<0>> \o BAD_FLAG],
  [name |-> <<103,46,116,120,116>>, raw |-> GOOD_FLAG \o <<10>>],
  [name |-> <<99,46,116,120,116>>, raw |-> BAD_FLAG \o <<10>> \o BAD_FLAG \o <<10>>]
}

\* the files of directory d, in listing order
RECURSIVE FilesFrom(_, _)
FilesFrom(d, f) ==
  IF f > NumFiles THEN <<>>
  ELSE IF DirOf(f) = d THEN <<f>> \o FilesFrom(d, f + 1)
  ELSE FilesFrom(d, f + 1)

FilesIn(d) == FilesFrom(d, 1)

\* the elements of a sequence
Range(s) == {s[i] : i \in 1..Len(s)}

\* Mutant of SelectDirs: the filtered list is bound to a new name
\* (dirnames = [...]), so os.walk descends into every directory
SelectDirsAll(s, names) == s

\* dirnames[:] = [d for d in dirnames if d not in SKIP_DIRS], names giving each
\* directory its name
RECURSIVE SelectDirs(_, _)
SelectDirs(s, names) ==
  IF s = <<>> THEN <<>>
  ELSE IF names[s[1]] \in SKIP_DIRS THEN SelectDirs(Tail(s), names)
  ELSE <<s[1]>> \o SelectDirs(Tail(s), names)

----------------------------------------------------------------------------
(* State *)

VARIABLES
  argv,          \* the command line: [apply, commit]
  root_is_dir,   \* the scan root is a directory
  root_name,     \* the name of the scan root
  dir_name,      \* the name of each sub-directory
  file_name,     \* the name of each file
  fs,            \* the bytes of each file on disk
  pc,            \* where main() is: "start", "walk", "apply", "git_add", "git_commit", "exit"
  args,          \* the parsed arguments, after `commit implies apply`
  stack,         \* os.walk: the directories still to visit
  filenames,     \* os.walk: the files of the current directory still to scan
  results,       \* find_files_with_bad_flag: <<file, count>> pairs
  todo,          \* main: the files of files_with_flag still to replace in
  changed_files, \* main: the files replace_in_file returned True for
  stdout,        \* the lines printed to the output stream
  stderr,        \* the lines printed to the error stream
  exit_status,   \* the process exit status, -1 while the process runs
  git_calls,     \* the git sub-processes started by this run
  faults,        \* the failures injected so far
  pre,           \* history: the bytes of each file when this run started
  visited,       \* history: the directories os.walk listed in this run
  opened,        \* history: the files this run opened
  scanned,       \* history: the files whose text this run's scanner read
  sniff_failed,  \* history: the files whose sniff raised in this run
  caught,        \* history: the errors this run caught, as [kind, file]
  attempted,     \* history: the files replace_in_file was called on in this run
  writes,        \* history: the number of files this run opened for writing
  prev           \* history: what the previous invocation did, if there was one

tree == <<argv, root_is_dir, root_name, dir_name, file_name>>
proc == <<pc, args, stack, filenames, results, todo, changed_files, stdout, stderr,
          exit_status, git_calls>>
ghost == <<pre, visited, opened, scanned, sniff_failed, caught, attempted, writes>>
vars == <<tree, fs, proc, ghost, faults, prev>>

\* a line of output: what it says, and the file and the number it is about
Line(ev, f, n) == [ev |-> ev, file |-> f, n |-> n]

\* the environment may inject one more failure
MayFail == faults < MaxFaults

\* the name the tree gives each directory
NameOf == [d \in Dirs |-> IF d = "root" THEN root_name ELSE dir_name[d]]

\* the summary of an invocation: it ran, in apply mode, the files it changed,
\* and whether it caught no file error
NoRun == [ran |-> FALSE, apply |-> FALSE, changed |-> <<>>, clean |-> TRUE]

Init ==
  /\ argv \in {[apply |-> FALSE, commit |-> FALSE],
               [apply |-> TRUE, commit |-> FALSE],
               [apply |-> FALSE, commit |-> TRUE]}
  /\ root_is_dir \in BOOLEAN
  /\ root_name \in RootNames
  /\ \E n \in SubDirNames : dir_name = [d \in {"d1", "d2"} |-> IF d = "d1" THEN n ELSE "lib"]
  /\ \E kind \in [Files -> FileKinds] :
       /\ file_name = [f \in Files |-> kind[f].name]
       /\ fs = [f \in Files |-> kind[f].raw]
  /\ pc = "start"
  /\ args = argv
  /\ stack = <<>>
  /\ filenames = <<>>
  /\ results = <<>>
  /\ todo = <<>>
  /\ changed_files = <<>>
  /\ stdout = <<>>
  /\ stderr = <<>>
  /\ exit_status = -1
  /\ git_calls = <<>>
  /\ faults = 0
  /\ pre = fs
  /\ visited = {}
  /\ opened = {}
  /\ scanned = {}
  /\ sniff_failed = {}
  /\ caught = {}
  /\ attempted = <<>>
  /\ writes = 0
  /\ prev = NoRun

----------------------------------------------------------------------------
(* The functions of the script, with the outcome of each I/O call as a parameter *)

\* One iteration of the file loop of find_files_with_bad_flag on a file with
\* this name and these bytes. sniff_ok: the open/read of is_binary_file
\* succeeds; read_ok: the open/read of the scanner succeeds.
\*   skip:  is_binary_file returned True (continue)
\*   read:  the scanner read the text of the file
\*   warn:  "Warning: Could not read ..." went to the error stream
\*   count: content.count(BAD_FLAG)
scan_file(name, raw, sniff_ok, read_ok) ==
  IF is_binary_file(name, raw, sniff_ok)
    THEN [skip |-> TRUE, read |-> FALSE, warn |-> FALSE, count |-> 0]
  ELSE IF ~read_ok
    THEN [skip |-> FALSE, read |-> FALSE, warn |-> TRUE, count |-> 0]
  ELSE [skip |-> FALSE, read |-> TRUE, warn |-> FALSE,
        count |-> Count(ReadText(raw), BAD_FLAG)]

\* what can happen to the I/O calls of replace_in_file:
\*   "ok"         every call succeeds
\*   "read_err"   the open or the read of the text raises
\*   "open_err"   open(filepath, "w") raises, before the file is truncated
\*   "write_err"  open(filepath, "w") has truncated the file, and the write, the
\*                flush or the close raises with k bytes on disk
Outcomes == {"ok", "read_err", "open_err", "write_err"}

\* The byte counts a failed write of n bytes can leave on disk, one of each
\* kind: nothing (the file stays truncated), a proper part of the bytes, and
\* all of them (the close raises after the flush).
PartialWrites(n) == {0, n \div 2, n}

\* Mutant of replace_in_file: a failed write still returns True
replace_in_file_true_on_error(raw, outcome, k) ==
  LET content == ReadText(raw)
      new_content == Replace(content, BAD_FLAG, GOOD_FLAG)
  IN  IF outcome = "read_err"
        THEN [ret |-> FALSE, disk |-> raw, err |-> TRUE, wrote |-> FALSE]
      ELSE IF ~Contains(content, BAD_FLAG)
        THEN [ret |-> FALSE, disk |-> raw, err |-> FALSE, wrote |-> FALSE]
      ELSE IF outcome = "open_err"
        THEN [ret |-> FALSE, disk |-> raw, err |-> TRUE, wrote |-> FALSE]
      ELSE IF outcome = "write_err"
        THEN [ret |-> TRUE, disk |-> SubSeq(WriteBytes(new_content), 1, k),
              err |-> TRUE, wrote |-> TRUE]
      ELSE [ret |-> TRUE, disk |-> WriteBytes(new_content),
            err |-> FALSE, wrote |-> TRUE]

\* replace_in_file(filepath) on a file whose bytes are raw.
\*   ret:   the value returned
\*   disk:  the bytes of the file afterwards
\*   err:   "Error: Could not modify ..." went to the error stream
\*   wrote: the file was opened for writing
replace_in_file(raw, outcome, k) ==
  LET content == ReadText(raw)
      new_content == Replace(content, BAD_FLAG, GOOD_FLAG)
  IN  IF outcome = "read_err"
        THEN [ret |-> FALSE, disk |-> raw, err |-> TRUE, wrote |-> FALSE]
      ELSE IF ~Contains(content, BAD_FLAG)
        THEN [ret |-> FALSE, disk |-> raw, err |-> FALSE, wrote |-> FALSE]
      ELSE IF outcome = "open_err"
        THEN [ret |-> FALSE, disk |-> raw, err |-> TRUE, wrote |-> FALSE]
      ELSE IF outcome = "write_err"
        THEN [ret |-> FALSE, disk |-> SubSeq(WriteBytes(new_content), 1, k),
              err |-> TRUE, wrote |-> TRUE]
      ELSE [ret |-> TRUE, disk |-> WriteBytes(new_content),
            err |-> FALSE, wrote |-> TRUE]

\* Mutant of ReportLines: the loop stops one file short
ReportLinesShort(res) ==
  [i \in 1..(Len(res) - 1) |-> Line("found", res[i][1], res[i][2])]

\* the report lines of main for the scan result, one per file
ReportLines(res) == [i \in 1..Len(res) |-> Line("found", res[i][1], res[i][2])]

\* sys.exit(status)
Exit(status) ==
  /\ pc' = "exit"
  /\ exit_status' = status

----------------------------------------------------------------------------
(* Actions *)

\* main, lines 118-136: parse the arguments, resolve the root, check it
Main ==
  /\ pc = "start"
  /\ args' = [apply |-> argv.apply \/ argv.commit, commit |-> argv.commit]
  /\ IF ~root_is_dir
       THEN /\ stderr' = Append(stderr, Line("not_a_directory", 0, 0))
            /\ Exit(1)
            /\ UNCHANGED <<stack, stdout>>
       ELSE /\ stdout' = Append(stdout, Line("scanning", 0, 0))
            /\ stack' = <<"root">>
            /\ pc' = "walk"
            /\ UNCHANGED <<stderr, exit_status>>
  /\ UNCHANGED <<tree, fs, filenames, results, todo, changed_files, git_calls,
                 ghost, faults, prev>>

\* find_files_with_bad_flag, lines 56-58: os.walk yields the next directory;
\* the directories named in SKIP_DIRS are pruned from its listing
WalkDir ==
  /\ pc = "walk"
  /\ filenames = <<>>
  /\ stack /= <<>>
  /\ LET d == Head(stack)
     IN  /\ stack' = SelectDirs(Children(d), NameOf) \o Tail(stack)
         /\ filenames' = FilesIn(d)
         /\ visited' = visited \cup {d}
  /\ UNCHANGED <<tree, fs, pc, args, results, todo, changed_files, stdout, stderr,
                 exit_status, git_calls, faults, prev,
                 pre, opened, scanned, sniff_failed, caught, attempted, writes>>

\* find_files_with_bad_flag, lines 60-73: the next file of the directory
ScanFile ==
  /\ pc = "walk"
  /\ filenames /= <<>>
  /\ LET f == Head(filenames)
         sniffs == ~HasBinaryExtension(file_name[f])
     IN  \E sniff_ok, read_ok \in BOOLEAN :
           LET r == scan_file(file_name[f], fs[f], sniff_ok, read_ok)
               nfail == (IF sniff_ok THEN 0 ELSE 1) + (IF read_ok THEN 0 ELSE 1)
           IN  /\ ~sniff_ok => sniffs /\ read_ok
               /\ ~read_ok => ~r.skip
               /\ nfail > 0 => MayFail
               /\ faults' = faults + nfail
               /\ filenames' = Tail(filenames)
               /\ results' = IF r.count > 0 THEN Append(results, <<f, r.count>>)
                             ELSE results
               /\ stderr' = IF r.warn THEN Append(stderr, Line("warn_read", f, 0))
                            ELSE stderr
               /\ opened' = IF sniffs THEN opened \cup {f} ELSE opened
               /\ scanned' = IF r.read THEN scanned \cup {f} ELSE scanned
               /\ sniff_failed' = IF sniffs /\ ~sniff_ok THEN sniff_failed \cup {f}
                                  ELSE sniff_failed
               /\ caught' = caught
                    \cup (IF sniffs /\ ~sniff_ok
                            THEN {[kind |-> "sniff", file |-> f]} ELSE {})
                    \cup (IF ~r.skip /\ ~read_ok
                            THEN {[kind |-> "scan", file |-> f]} ELSE {})
  /\ UNCHANGED <<tree, fs, pc, args, stack, todo, changed_files, stdout,
                 exit_status, git_calls, pre, visited, attempted, writes, prev>>

\* main, lines 138-159: the scan is over; report it, and stop unless --apply
Report ==
  /\ pc = "walk"
  /\ filenames = <<>>
  /\ stack = <<>>
  /\ IF results = <<>>
       THEN /\ stdout' = Append(stdout, Line("none_found", 0, 0))
            /\ Exit(0)
            /\ todo' = todo
       ELSE LET report == stdout \o ReportLines(results)
                           \o <<Line("total", 0, Len(results))>>
            IN  IF ~args.apply
                  THEN /\ stdout' = Append(report, Line("dry_run", 0, 0))
                       /\ Exit(0)
                       /\ todo' = todo
                  ELSE /\ stdout' = Append(report, Line("applying", 0, 0))
                       /\ todo' = [i \in 1..Len(results) |-> results[i][1]]
                       /\ pc' = "apply"
                       /\ exit_status' = exit_status
  /\ UNCHANGED <<tree, fs, args, stack, filenames, results, changed_files, stderr,
                 git_calls, ghost, faults, prev>>

\* main, lines 161-165: replace_in_file on the next file of the scan result
ReplaceStep ==
  /\ pc = "apply"
  /\ todo /= <<>>
  /\ LET f == Head(todo)
     IN  \E outcome \in Outcomes :
         \E k \in IF outcome = "write_err" THEN PartialWrites(Len(Rewritten(fs[f])))
                   ELSE {0} :
           LET r == replace_in_file(fs[f], outcome, k)
           IN  /\ outcome /= "ok" => MayFail /\ r.err
               /\ faults' = IF outcome = "ok" THEN faults ELSE faults + 1
               /\ fs' = [fs EXCEPT ![f] = r.disk]
               /\ todo' = Tail(todo)
               /\ changed_files' = IF r.ret THEN Append(changed_files, f)
                                   ELSE changed_files
               /\ stdout' = IF r.ret THEN Append(stdout, Line("modified", f, 0))
                            ELSE stdout
               /\ stderr' = IF r.err THEN Append(stderr, Line("err_modify", f, 0))
                            ELSE stderr
               /\ opened' = opened \cup {f}
               /\ attempted' = Append(attempted, f)
               /\ writes' = IF r.wrote THEN writes + 1 ELSE writes
               /\ caught' = IF r.err THEN caught \cup {[kind |-> "replace", file |-> f]}
                            ELSE caught
  /\ UNCHANGED <<tree, pc, args, stack, filenames, results, exit_status, git_calls,
                 pre, visited, scanned, sniff_failed, prev>>

\* Mutant of AfterApply: without the `if not changed_files` exit
AfterApplyNoCheck ==
  /\ pc = "apply"
  /\ todo = <<>>
  /\ LET said == Append(stdout, Line("modified_count", 0, Len(changed_files)))
     IN  IF args.commit
           THEN /\ stdout' = Append(said, Line("committing", 0, 0))
                /\ pc' = "git_add"
                /\ exit_status' = exit_status
           ELSE /\ stdout' = Append(said, Line("done", 0, 0))
                /\ Exit(0)
  /\ UNCHANGED <<tree, fs, args, stack, filenames, results, todo, changed_files,
                 stderr, git_calls, ghost, faults, prev>>

\* main, lines 167-176 and 202: the loop is over
AfterApply ==
  /\ pc = "apply"
  /\ todo = <<>>
  /\ IF changed_files = <<>>
       THEN /\ stdout' = Append(stdout, Line("no_modified", 0, 0))
            /\ Exit(0)
       ELSE LET said == Append(stdout, Line("modified_count", 0, Len(changed_files)))
            IN  IF args.commit
                  THEN /\ stdout' = Append(said, Line("committing", 0, 0))
                       /\ pc' = "git_add"
                       /\ exit_status' = exit_status
                  ELSE /\ stdout' = Append(said, Line("done", 0, 0))
                       /\ Exit(0)
  /\ UNCHANGED <<tree, fs, args, stack, filenames, results, todo, changed_files,
                 stderr, git_calls, ghost, faults, prev>>

\* Mutant of GitAdd: run without check=True, a failed git add goes unnoticed
GitAddUnchecked ==
  /\ pc = "git_add"
  /\ git_calls' = Append(git_calls, [cmd |-> "add", files |-> changed_files])
  /\ \E ok \in BOOLEAN :
       IF ok
         THEN UNCHANGED <<faults, caught>>
         ELSE /\ MayFail
              /\ faults' = faults + 1
              /\ caught' = caught \cup {[kind |-> "git_add", file |-> 0]}
  /\ pc' = "git_commit"
  /\ UNCHANGED <<tree, fs, args, stack, filenames, results, todo, changed_files,
                 stdout, stderr, exit_status, pre, visited, opened, scanned,
                 sniff_failed, attempted, writes, prev>>

\* main, lines 179-184 and 196-200: git add of the changed files
GitAdd ==
  /\ pc = "git_add"
  /\ git_calls' = Append(git_calls, [cmd |-> "add", files |-> changed_files])
  /\ \E ok \in BOOLEAN :
       IF ok
         THEN /\ pc' = "git_commit"
              /\ UNCHANGED <<stderr, exit_status, faults, caught>>
         ELSE /\ MayFail
              /\ faults' = faults + 1
              /\ caught' = caught \cup {[kind |-> "git_add", file |-> 0]}
              /\ stderr' = Append(stderr, Line("err_commit", 0, 0))
              /\ Exit(1)
  /\ UNCHANGED <<tree, fs, args, stack, filenames, results, todo, changed_files,
                 stdout, pre, visited, opened, scanned, sniff_failed, attempted,
                 writes, prev>>

\* main, lines 186-202: git commit
GitCommit ==
  /\ pc = "git_commit"
  /\ git_calls' = Append(git_calls, [cmd |-> "commit", files |-> <<>>])
  /\ \E ok \in BOOLEAN :
       IF ok
         THEN /\ stdout' = stdout \o <<Line("committed", 0, 0), Line("done", 0, 0)>>
              /\ Exit(0)
              /\ UNCHANGED <<stderr, faults, caught>>
         ELSE /\ MayFail
              /\ faults' = faults + 1
              /\ caught' = caught \cup {[kind |-> "git_commit", file |-> 0]}
              /\ stderr' = Append(stderr, Line("err_commit", 0, 0))
              /\ Exit(1)
              /\ stdout' = stdout
  /\ UNCHANGED <<tree, fs, args, stack, filenames, results, todo, changed_files,
                 pre, visited, opened, scanned, sniff_failed, attempted, writes,
                 prev>>

\* the script is invoked again, with the same command line, on the tree the
\* previous invocation left
Rerun ==
  /\ pc = "exit"
  /\ prev' = [ran |-> TRUE, apply |-> args.apply, changed |-> changed_files,
               clean |-> \A e \in caught : e.kind \in {"git_add", "git_commit"}]
  /\ pc' = "start"
  /\ args' = argv
  /\ stack' = <<>>
  /\ filenames' = <<>>
  /\ results' = <<>>
  /\ todo' = <<>>
  /\ changed_files' = <<>>
  /\ stdout' = <<>>
  /\ stderr' = <<>>
  /\ exit_status' = -1
  /\ git_calls' = <<>>
  /\ pre' = fs
  /\ visited' = {}
  /\ opened' = {}
  /\ scanned' = {}
  /\ sniff_failed' = {}
  /\ caught' = {}
  /\ attempted' = <<>>
  /\ writes' = 0
  /\ UNCHANGED <<tree, fs, faults>>

Next ==
  \/ Main
  \/ WalkDir
  \/ ScanFile
  \/ Report
  \/ ReplaceStep
  \/ AfterApply
  \/ GitAdd
  \/ GitCommit
  \/ Rerun

Spec == Init /\ [][Next]_vars

----------------------------------------------------------------------------
(* Vocabulary of the properties *)

\* the files the report of this run names
Reported == {stdout[i].file : i \in {j \in 1..Len(stdout) : stdout[j].ev = "found"}}

\* the files of the scan result of this run
Found == {results[i][1] : i \in 1..Len(results)}

\* the files this run lists as modified
Changed == Range(changed_files)

\* the files this run caught an error of this kind for
CaughtFor(kind) == {e.file : e \in {x \in caught : x.kind = kind}}

\* the error stream holds a line of this kind about file f
Printed(ev, f) == \E i \in 1..Len(stderr) : stderr[i].ev = ev /\ stderr[i].file = f

\* is_binary_file was called on f in this run and returned False
PassedFilter(f) ==
  /\ f \in opened
  /\ f \notin sniff_failed
  /\ ~is_binary_file(file_name[f], pre[f], TRUE)

\* the directory d and the directories below it
Subtree(d) ==
  IF d = "root" THEN Dirs ELSE IF d = "d1" THEN {"d1", "d2"} ELSE {d}

\* no directory of D was listed and no file in one was opened, reported or changed
Untouched(D) ==
  /\ D \cap visited = {}
  /\ \A f \in Files :
       DirOf(f) \in D => f \notin opened /\ f \notin Reported /\ fs[f] = pre[f]

\* the extension of f, lower-cased, is on the deny-list
DenyListed(f) == Lower(Suffix(file_name[f])) \in BINARY_EXTENSIONS

\* the first 8192 bytes of f, as the run found it, hold a null byte
NullInHead(f) == \E i \in 1..Len(pre[f]) : i <= SNIFF_SIZE /\ pre[f][i] = 0

\* main has left the replace loop in this run
LoopDone ==
  \/ pc \in {"git_add", "git_commit"}
  \/ pc = "exit" /\ root_is_dir /\ args.apply /\ results /= <<>>

\* this run is a dry run
DryRun == ~argv.apply /\ ~argv.commit

----------------------------------------------------------------------------
(* C1 *)

\* C1, as stated: when a dry run ends, every file that holds the target bytes and
\* passed the binary filter is in the report, no file content has changed and no
\* git process was started.
C1_DryRunReportsEveryMatch ==
  (DryRun /\ pc = "exit" /\ root_is_dir) =>
    /\ \A f \in Files :
         (PassedFilter(f) /\ Contains(fs[f], BAD_FLAG)) => f \in Reported
    /\ fs = pre
    /\ writes = 0
    /\ git_calls = <<>>

\* C1, amended: when a dry run ends, every file that holds the target bytes,
\* passed the binary filter and was read by the scanner without error is in the
\* report; and at every point of a dry run no file content has changed, no file
\* was opened for writing and no git process was started.
C1_DryRunReportsEveryScannedMatch ==
  DryRun =>
    /\ (pc = "exit" /\ root_is_dir) =>
         \A f \in Files :
           (PassedFilter(f) /\ f \in scanned /\ Contains(fs[f], BAD_FLAG))
             => f \in Reported
    /\ fs = pre
    /\ writes = 0
    /\ git_calls = <<>>

\* a dry run has ended with a matching text file in its report
C1_Witness ==
  /\ DryRun
  /\ pc = "exit"
  /\ \E f \in Files :
       /\ PassedFilter(f) /\ f \in scanned /\ Contains(fs[f], BAD_FLAG)
       /\ f \in Reported
  /\ \E i \in 1..Len(stdout) : stdout[i].ev = "dry_run"

----------------------------------------------------------------------------
(* C2 *)

\* C2: every file this run lists as modified no longer holds the target bytes and
\* is, byte for byte, its content at the start of the run with each occurrence
\* of the target replaced by the replacement.
C2_ModifiedFileDiffersOnlyInTheFlag ==
  \A f \in Changed :
    /\ ~Contains(fs[f], BAD_FLAG)
    /\ fs[f] = Replace(pre[f], BAD_FLAG, GOOD_FLAG)

----------------------------------------------------------------------------
(* C3 *)

----------------------------------------------------------------------------
(* C4 *)

\* C4: a file with a deny-listed extension (whatever its case), with a null byte
\* in its first 8192 bytes or whose sniff failed is not read by the scanner, not
\* in the scan result, not reported, not handed to the replacer and not changed;
\* a file with a deny-listed extension is not even opened.
C4_BinaryFilesAreLeftAlone ==
  LET handled == scanned \cup Found \cup Reported \cup Range(attempted)
  IN  \A f \in Files :
        /\ (DenyListed(f) \/ f \in sniff_failed \/ NullInHead(f))
             => (f \notin handled /\ fs[f] = pre[f])
        /\ DenyListed(f) => f \notin opened

\* an apply run has ended that modified a file and walked past a file with an
\* upper-case deny-listed extension, or a null byte, that holds the target bytes
C4_Witness ==
  /\ pc = "exit"
  /\ args.apply
  /\ Changed /= {}
  /\ \E f \in Files :
       /\ DirOf(f) \in visited
       /\ Contains(fs[f], BAD_FLAG)
       /\ \/ DenyListed(f) /\ Suffix(file_name[f]) \notin BINARY_EXTENSIONS
          \/ NullInHead(f) /\ f \in opened

----------------------------------------------------------------------------
(* C5 *)

\* C5, as stated: a directory whose name is in the skip-set, and every directory
\* below it, is never listed, and no file in one is opened, reported or changed.
C5_SkipNamedDirsAreNeverTraversed ==
  \A d \in Dirs : NameOf[d] \in SKIP_DIRS => Untouched(Subtree(d))

\* C5, amended: a directory below the scan root whose name is in the skip-set,
\* and every directory below it, is never listed, and no file in one is opened,
\* reported or changed.
C5_SkipNamedDirsBelowRootAreNeverTraversed ==
  \A d \in Dirs \ {"root"} : NameOf[d] \in SKIP_DIRS => Untouched(Subtree(d))

\* an apply run has ended that modified a file of the root and left alone a
\* text file holding the target two levels below, under a directory named in
\* the skip-set
C5_Witness ==
  /\ pc = "exit"
  /\ args.apply
  /\ dir_name["d1"] \in SKIP_DIRS
  /\ \E g \in Changed : DirOf(g) = "root"
  /\ \E f \in Files :
       /\ DirOf(f) = "d2"
       /\ Contains(fs[f], BAD_FLAG)
       /\ ~is_binary_file(file_name[f], fs[f], TRUE)
       /\ f \notin opened

----------------------------------------------------------------------------
(* C6 *)

\* C6: git is started only when this run modified a file; a --commit run on a
\* directory that ends with no file modified has started no git process and
\* exits with status 0.
C6_NoCommitWithoutModifiedFile ==
  /\ git_calls /= <<>> => changed_files /= <<>>
  /\ (argv.commit /\ root_is_dir /\ pc = "exit" /\ changed_files = <<>>)
       => (git_calls = <<>> /\ exit_status = 0)

\* a --commit run has ended whose scan found a file and whose every replacement
\* returned False
C6_Witness ==
  /\ argv.commit
  /\ pc = "exit"
  /\ results /= <<>>
  /\ Len(attempted) = Len(results)
  /\ changed_files = <<>>
  /\ exit_status = 0

----------------------------------------------------------------------------
(* C7 *)

\* C7: once git add or git commit has failed, the process has exited with
\* status 1 without printing "Committed" or "Done", every file listed as modified
\* holds its rewritten content, and after a failed git add no git commit was
\* started.
C7_GitFailureExitsOneAndKeepsFiles ==
  /\ (CaughtFor("git_add") \cup CaughtFor("git_commit") /= {}) =>
       /\ pc = "exit"
       /\ exit_status = 1
       /\ \A i \in 1..Len(stdout) : stdout[i].ev \notin {"committed", "done"}
       /\ Printed("err_commit", 0)
       /\ \A f \in Changed : fs[f] = Rewritten(pre[f]) /\ fs[f] /= pre[f]
  /\ CaughtFor("git_add") /= {} =>
       \A i \in 1..Len(git_calls) : git_calls[i].cmd /= "commit"

\* git add has failed after the run rewrote a file
C7_Witness ==
  /\ CaughtFor("git_add") /= {}
  /\ Changed /= {}
  /\ exit_status = 1

----------------------------------------------------------------------------
(* C8 *)

\* C8: a file whose replacement raised has its error on the error stream and is
\* not listed as modified (so not staged); when the loop is left, replace_in_file
\* has been called on every file of the scan result, in order; and a run that
\* ends with no git failure ends with status 0.
C8_ReplaceErrorSkipsOnlyThatFile ==
  /\ \A f \in CaughtFor("replace") :
       /\ Printed("err_modify", f)
       /\ f \notin Changed
       /\ \A i \in 1..Len(git_calls) : f \notin Range(git_calls[i].files)
  /\ LoopDone => attempted = [i \in 1..Len(results) |-> results[i][1]]
  /\ (pc = "exit" /\ root_is_dir /\ CaughtFor("git_add") \cup CaughtFor("git_commit") = {})
       => exit_status = 0

\* a run has ended in which the replacement of one file raised and a later file
\* of the scan result was modified
C8_Witness ==
  /\ pc = "exit"
  /\ \E i, j \in 1..Len(results) :
       /\ i < j
       /\ results[i][1] \in CaughtFor("replace")
       /\ results[j][1] \in Changed

----------------------------------------------------------------------------
(* C9 *)

\* C9: every error this run caught has a line on the error stream: a warning or
\* an error about the file for a sniff, a scan or a replace failure, the commit
\* error for a git failure.
C9_EveryCaughtErrorIsPrinted ==
  \A e \in caught :
    IF e.kind \in {"git_add", "git_commit"}
      THEN Printed("err_commit", 0)
      ELSE Printed("warn_read", e.file) \/ Printed("err_modify", e.file)

----------------------------------------------------------------------------
(* C10 *)

\* C10: a file replace_in_file was called on in this run either is listed as
\* modified and holds its rewritten content, or holds the content it had when
\* the run started.
C10_ReplaceIsAllOrNothing ==
  \A f \in Range(attempted) :
    IF f \in Changed THEN fs[f] = Rewritten(pre[f]) ELSE fs[f] = pre[f]

====
